---- MODULE Spec2Model ----
(***************************************************************************)
(* Model of the storage layer of the disaster response coordination        *)
(* platform: MemStorage (the exported `storage`), the parts of             *)
(* DatabaseStorage it is compared with, and the cache.                     *)
(*                                                                         *)
(* Every MemStorage method is `async` but contains no `await`, so each     *)
(* call runs to completion in one turn of the event loop: one action per   *)
(* method.  `clock` is the value `new Date()` returns; it only advances.   *)
(* A JS value that may be null/undefined is modelled as a sequence of      *)
(* length 0 (absent) or 1 (present).  `last` records the most recent       *)
(* state-changing call with its arguments and its return value; a method   *)
(* that only reads is an operator over the current state.  `budget` is the *)
(* number of steps left: every specification explores all behaviours up to *)
(* a number of steps.  `prev` is the call before `last`; it is recorded    *)
(* only where two calls made back to back are examined, and absent         *)
(* elsewhere.  The methods of DatabaseStorage and the verify-image handler *)
(* do suspend at their awaits: each is one action per piece that runs      *)
(* between two awaits, with the call in flight kept in dbGet and requests. *)
(***************************************************************************)
EXTENDS Integers, Sequences, FiniteSets, TLC

VARIABLES users, disasters, reports, resources, cache,
          currentUserId, currentDisasterId, currentReportId,
          currentResourceId, currentCacheId,
          clock, last, prev, budget,
          dbDisasters, dbDisasterSeq, dbReports, dbReportSeq, dbLast,
          dbCache, dbGet, requests

memVars == <<users, disasters, reports, resources, cache,
             currentUserId, currentDisasterId, currentReportId,
             currentResourceId, currentCacheId>>

vars == <<users, disasters, reports, resources, cache,
          currentUserId, currentDisasterId, currentReportId,
          currentResourceId, currentCacheId, clock, last, prev, budget,
          dbDisasters, dbDisasterSeq, dbReports, dbReportSeq, dbLast,
          dbCache, dbGet, requests>>

\* What a call of a MemStorage method leaves alone: the disasters and
\* reports tables of DatabaseStorage, their id sequences, the most recent
\* DatabaseStorage call, the cache table of DatabaseStorage (one row per
\* key), the DatabaseStorage.getCacheValue call in flight, and the
\* verify-image requests in flight.
dbVars == <<dbDisasters, dbDisasterSeq, dbReports, dbReportSeq, dbLast,
            dbCache, dbGet, requests>>

(***************************************************************************)
(* Bounds of the model: the number of steps (calls and clock ticks) each   *)
(* specification explores.                                                 *)
(***************************************************************************)
MaxCalls == 3
MaxDisasterCalls == 4
MaxResourceCalls == 5
MaxCacheCalls == 5
MaxEqCalls == 3
MaxTtlCalls == 4
MaxDeleteCalls == 3
MaxRaceCalls == 4
MaxAuditCalls == 3
MaxPartialCalls == 3
MaxDbCacheCalls == 6
MaxVerifyCalls == 7
MaxRequests == 2
MaxSweepCalls == 3
MaxClock == 24

\* Every action takes one step of the budget.  In a specification that
\* starts with a `prev` (the specification of two calls made back to back)
\* the step also moves the record of the latest call into `prev`.
Step ==
    /\ budget > 0
    /\ budget' = budget - 1
    /\ prev' = IF prev = <<>> THEN <<>> ELSE <<last>>

(***************************************************************************)
(* JS helpers.                                                             *)
(***************************************************************************)
Null == <<>>

Some(v) == <<v>>

\* { ...r, ...u }: the fields of u override those of r.
Merge(r, u) == [f \in DOMAIN r \cup DOMAIN u |-> IF f \in DOMAIN u THEN u[f] ELSE r[f]]

\* Truthiness of a string: only the empty string is falsy.
TruthyStr(s) == s # ""

\* Truthiness of an optional field of a parameter object (filters?.tag).
TruthyField(o, f) == f \in DOMAIN o /\ TruthyStr(o[f])

\* Date.prototype.toISOString is fixed-width, most significant digit first;
\* here two decimal digits of the clock value.
ToISOString(t) == <<t \div 10, t % 10>>

\* new Date(isoString).getTime()
ParseISO(s) == s[1] * 10 + s[2]

\* Array.prototype.includes
Includes(seq, x) == \E i \in 1..Len(seq) : seq[i] = x

Min(S) == CHOOSE x \in S : \A y \in S : x <= y

\* Array.from(map.values()): a Map iterates in insertion order.  Keys are
\* inserted in increasing order (the counters only grow), set() on an
\* existing key keeps its position and delete() removes it, so insertion
\* order is increasing key order.
RECURSIVE KeysInOrder(_)
KeysInOrder(S) == IF S = {} THEN <<>>
                  ELSE <<Min(S)>> \o KeysInOrder(S \ {Min(S)})

MapValues(m) == [i \in 1..Cardinality(DOMAIN m) |-> m[KeysInOrder(DOMAIN m)[i]]]

\* Insert x into a list already sorted by createdAt descending, after every
\* element the comparator does not put behind it (stable).
RECURSIVE InsertDesc(_, _)
InsertDesc(sorted, x) ==
    IF sorted = <<>> THEN <<x>>
    ELSE IF Head(sorted).createdAt >= x.createdAt
         THEN <<Head(sorted)>> \o InsertDesc(Tail(sorted), x)
         ELSE <<x>> \o sorted

\* arr.sort((a, b) => b.createdAt - a.createdAt); Array.prototype.sort is
\* stable, elements that compare equal keep their relative order.
RECURSIVE SortByCreatedAtDesc(_)
SortByCreatedAtDesc(seq) ==
    IF seq = <<>> THEN <<>>
    ELSE InsertDesc(SortByCreatedAtDesc(SubSeq(seq, 1, Len(seq) - 1)), seq[Len(seq)])

(***************************************************************************)
(* Inputs.                                                                 *)
(***************************************************************************)
\* InsertDisaster payloads (description and locationName are copied
\* verbatim exactly like title and are left out).
InsertDisasters ==
    { [title |-> "t", tags |-> <<"flood">>, ownerId |-> "citizen1"],
      [title |-> "t", tags |-> <<"fire", "urgent">>, ownerId |-> "netrunnerX"] }

\* Partial<Disaster> payloads; the PUT route passes req.body unvalidated.
DisasterPartials ==
    { <<>>,
      [title |-> "t2"],
      [ownerId |-> "citizen1"],
      [auditTrail |-> <<>>, id |-> 9] }

\* Partials that do and do not carry an owner; the empty string is what a
\* request body with "ownerId": "" passes.
OwnerPartials ==
    { <<>>, [title |-> "t2"], [ownerId |-> "reliefAdmin"], [ownerId |-> ""] }

DisasterFilters ==
    { <<>>, [tag |-> "urgent"], [tag |-> "flood"], [ownerId |-> "netrunnerX"],
      [tag |-> "urgent", ownerId |-> "reliefAdmin"] }

\* Ids a caller may pass: every id handed out so far and the next one,
\* which no record has.
DisasterIds == 1..currentDisasterId

(***************************************************************************)
(* Init is the store after `new MemStorage()`: initializeUsers and                 *)
(* initializeSampleData have run (they contain no real suspension, so they *)
(* finish before the first request is served).  The tables of              *)
(* DatabaseStorage start with the same rows, so that the two               *)
(* implementations can be compared call by call.                           *)
(***************************************************************************)
SampleUsers ==
    (1 :> [id |-> 1, username |-> "netrunnerX", role |-> "admin"]) @@
    (2 :> [id |-> 2, username |-> "reliefAdmin", role |-> "admin"]) @@
    (3 :> [id |-> 3, username |-> "citizen1", role |-> "contributor"])

SampleDisaster(i, tg, o, lat, lon) ==
    [id |-> i, title |-> "t", tags |-> tg, ownerId |-> o,
     latitude |-> Some(lat), longitude |-> Some(lon),
     createdAt |-> 0, updatedAt |-> 0,
     auditTrail |-> << [action |-> "create", userId |-> o, timestamp |-> ToISOString(0)],
                       [action |-> "update", userId |-> o, timestamp |-> ToISOString(0)] >>]

SampleDisasters ==
    (1 :> SampleDisaster(1, <<"flood", "urgent">>, "netrunnerX", 41, -74)) @@
    (2 :> SampleDisaster(2, <<"fire", "evacuation", "urgent">>, "reliefAdmin", 34, -118))

SampleResource(i, d, n) ==
    [id |-> i, disasterId |-> d, name |-> n,
     latitude |-> Null, longitude |-> Null, createdAt |-> 0]

SampleResources ==
    (1 :> SampleResource(1, 1, "shelter")) @@
    (2 :> SampleResource(2, 1, "medical")) @@
    (3 :> SampleResource(3, 2, "shelter"))

SampleReport(i, d, img) ==
    [id |-> i, disasterId |-> d, userId |-> "citizen1", content |-> "c",
     imageUrl |-> img, verificationStatus |-> "pending", createdAt |-> 0]

SampleReports ==
    (1 :> SampleReport(1, 1, Some("img"))) @@
    (2 :> SampleReport(2, 2, Null))

Init ==
    /\ users = SampleUsers
    /\ disasters = SampleDisasters
    /\ reports = SampleReports
    /\ resources = SampleResources
    /\ cache = <<>>
    /\ currentUserId = 4
    /\ currentDisasterId = 3
    /\ currentReportId = 3
    /\ currentResourceId = 4
    /\ currentCacheId = 1
    /\ clock = 0
    /\ last = [op |-> "init"]
    /\ dbDisasters = SampleDisasters
    /\ dbDisasterSeq = 3
    /\ dbReports = SampleReports
    /\ dbReportSeq = 3
    /\ dbLast = [op |-> "init"]
    /\ dbCache = <<>>
    /\ dbGet = [pc |-> "idle"]
    /\ requests = <<>>

(***************************************************************************)
(* The clock.                                                              *)
(***************************************************************************)
\* Time passes.  One hour is 8 ticks.
Tick(d) ==
    /\ Step
    /\ UNCHANGED dbVars
    /\ /\ clock' = clock + d
       /\ last' = [op |-> "tick"]
       /\ UNCHANGED memVars

(***************************************************************************)
(* Disasters.  MemCreateDisaster, MemUpdateDisaster and MemDeleteDisaster   *)
(* are the methods' effect on the in-memory store; the actions             *)
(* CreateDisaster, UpdateDisaster and DeleteDisaster are a call of them.   *)
(***************************************************************************)
\* The record createDisaster builds.
NewDisaster(id, ins, now) ==
    Merge(ins, [id |-> id, latitude |-> Null, longitude |-> Null,
                createdAt |-> now, updatedAt |-> now,
                auditTrail |-> << [action |-> "create", userId |-> ins.ownerId,
                                   timestamp |-> ToISOString(now)] >>])

Max(S) == CHOOSE x \in S : \A y \in S : x >= y

\* createDisaster as it would be if the id were one more than the largest
\* id in the map.
MemCreateDisasterReuse(ins) ==
    /\ LET id == IF DOMAIN disasters = {} THEN 1 ELSE Max(DOMAIN disasters) + 1
           d == NewDisaster(id, ins, clock)
       IN /\ disasters' = disasters @@ (id :> d)
          /\ currentDisasterId' = id + 1
          /\ last' = [op |-> "createDisaster", id |-> id, result |-> Some(d)]
    /\ UNCHANGED <<users, reports, resources, cache, currentUserId,
                   currentReportId, currentResourceId, currentCacheId, clock>>

MemCreateDisaster(ins) ==
    /\ LET id == currentDisasterId
           d == NewDisaster(id, ins, clock)
       IN /\ disasters' = disasters @@ (id :> d)
          /\ currentDisasterId' = currentDisasterId + 1
          /\ last' = [op |-> "createDisaster", id |-> id, result |-> Some(d)]
    /\ UNCHANGED <<users, reports, resources, cache, currentUserId,
                   currentReportId, currentResourceId, currentCacheId, clock>>

\* The actor as it would be if the owner in the partial were ignored.
AuditActorExisting(d, updates) == d.ownerId

\* updates.ownerId || disaster.ownerId
AuditActor(d, updates) ==
    IF TruthyField(updates, "ownerId") THEN updates.ownerId ELSE d.ownerId

\* updateDisaster as it would be if an audit entry were written only when a
\* field changes.
UpdatedDisasterIfChanged(d, updates, now) ==
    IF Merge(d, updates) = d THEN [d EXCEPT !.updatedAt = now]
    ELSE Merge(Merge(d, updates),
               [updatedAt |-> now,
                auditTrail |-> Append(d.auditTrail,
                                      [action |-> "update", userId |-> AuditActor(d, updates),
                                       timestamp |-> ToISOString(now)])])

\* updateDisaster as it would be with ...updates spread last.
UpdatedDisasterSpreadLast(d, updates, now) ==
    Merge(Merge(d, [updatedAt |-> now,
                    auditTrail |-> Append(d.auditTrail,
                                          [action |-> "update", userId |-> AuditActor(d, updates),
                                           timestamp |-> ToISOString(now)])]),
          updates)

\* updateDisaster as it would be if the new entry were put in front.
UpdatedDisasterPrepend(d, updates, now) ==
    Merge(Merge(d, updates),
          [updatedAt |-> now,
           auditTrail |-> <<[action |-> "update", userId |-> AuditActor(d, updates),
                             timestamp |-> ToISOString(now)]>> \o d.auditTrail])

\* The record updateDisaster builds; its two reads of the clock, made in one
\* object literal, are taken at the same instant.
UpdatedDisaster(d, updates, now) ==
    Merge(Merge(d, updates),
          [updatedAt |-> now,
           auditTrail |-> Append(d.auditTrail,
                                 [action |-> "update", userId |-> AuditActor(d, updates),
                                  timestamp |-> ToISOString(now)])])

MemUpdateDisaster(id, updates) ==
    IF id \notin DOMAIN disasters
    THEN /\ last' = [op |-> "updateDisaster", id |-> id, updates |-> updates,
                     before |-> Null, result |-> Null]
         /\ UNCHANGED <<memVars, clock>>
    ELSE /\ LET d == UpdatedDisaster(disasters[id], updates, clock)
            IN /\ disasters' = [disasters EXCEPT ![id] = d]
               /\ last' = [op |-> "updateDisaster", id |-> id, updates |-> updates,
                           before |-> Some(disasters[id]), result |-> Some(d)]
         /\ UNCHANGED <<users, reports, resources, cache, currentUserId,
                        currentDisasterId, currentReportId, currentResourceId,
                        currentCacheId, clock>>

\* deleteDisaster as it would be if it always reported success.
MemDeleteDisasterAlwaysTrue(id) ==
    /\ disasters' = [k \in DOMAIN disasters \ {id} |-> disasters[k]]
    /\ last' = [op |-> "deleteDisaster", id |-> id, result |-> TRUE]
    /\ UNCHANGED <<users, reports, resources, cache, currentUserId,
                   currentDisasterId, currentReportId, currentResourceId,
                   currentCacheId, clock>>

\* deleteDisaster as it would be if it removed the disaster's reports too.
MemDeleteDisasterCascade(id) ==
    /\ disasters' = [k \in DOMAIN disasters \ {id} |-> disasters[k]]
    /\ reports' = [k \in {r \in DOMAIN reports : reports[r].disasterId # id} |-> reports[k]]
    /\ last' = [op |-> "deleteDisaster", id |-> id, result |-> (id \in DOMAIN disasters)]
    /\ UNCHANGED <<users, resources, cache, currentUserId,
                   currentDisasterId, currentReportId, currentResourceId,
                   currentCacheId, clock>>

MemDeleteDisaster(id) ==
    /\ disasters' = [k \in DOMAIN disasters \ {id} |-> disasters[k]]
    /\ last' = [op |-> "deleteDisaster", id |-> id, result |-> (id \in DOMAIN disasters)]
    /\ UNCHANGED <<users, reports, resources, cache, currentUserId,
                   currentDisasterId, currentReportId, currentResourceId,
                   currentCacheId, clock>>

CreateDisaster(ins) == Step /\ MemCreateDisaster(ins) /\ UNCHANGED dbVars

UpdateDisaster(id, updates) == Step /\ MemUpdateDisaster(id, updates) /\ UNCHANGED dbVars

DeleteDisaster(id) == Step /\ MemDeleteDisaster(id) /\ UNCHANGED dbVars

HasTag(d, filters) == Includes(d.tags, filters.tag)

HasOwner(d, filters) == d.ownerId = filters.ownerId

\* What getDisasters returns in the current state.
DisastersResult(filters) ==
    LET all == MapValues(disasters)
        byTag == IF TruthyField(filters, "tag")
                 THEN SelectSeq(all, LAMBDA d : HasTag(d, filters)) ELSE all
        byOwner == IF TruthyField(filters, "ownerId")
                   THEN SelectSeq(byTag, LAMBDA d : HasOwner(d, filters)) ELSE byTag
    IN SortByCreatedAtDesc(byOwner)

\* What getDisaster returns in the current state.
DisasterResult(id) == IF id \in DOMAIN disasters THEN Some(disasters[id]) ELSE Null

(***************************************************************************)
(* Users.                                                                  *)
(***************************************************************************)
InsertUsers == { [username |-> "citizen2", role |-> "contributor"] }

CreateUser(ins) ==
    /\ Step
    /\ UNCHANGED dbVars
    /\ /\ LET id == currentUserId
              u == Merge(ins, [id |-> id])
          IN /\ users' = users @@ (id :> u)
             /\ currentUserId' = currentUserId + 1
             /\ last' = [op |-> "createUser", id |-> id, result |-> Some(u)]
       /\ UNCHANGED <<disasters, reports, resources, cache, currentDisasterId,
                      currentReportId, currentResourceId, currentCacheId, clock>>

(***************************************************************************)
(* Reports.                                                                *)
(***************************************************************************)
InsertReports ==
    { [disasterId |-> 1, userId |-> "citizen1", content |-> "c", imageUrl |-> Null],
      [disasterId |-> 2, userId |-> "citizen1", content |-> "c", imageUrl |-> Some("img"),
       verificationStatus |-> "verified"] }

ReportPartials ==
    { [verificationStatus |-> "verified"], [verificationStatus |-> "disputed"] }

\* Partial<Report> payloads of any shape the type allows.
AnyReportPartials ==
    { [verificationStatus |-> "verified"], [disasterId |-> 2],
      [createdAt |-> 9], [id |-> 9] }

ReportIds == 1..currentReportId

\* The record createReport would build if a supplied status were kept and
\* 'pending' were only the default.
NewReportKeepStatus(id, ins, now) ==
    Merge([verificationStatus |-> "pending"], Merge(ins, [id |-> id, createdAt |-> now]))

\* The record createReport builds.
NewReport(id, ins, now) ==
    Merge(ins, [id |-> id, verificationStatus |-> "pending", createdAt |-> now])

\* The effect of createReport on the in-memory store.
MemCreateReport(ins) ==
    /\ LET id == currentReportId
           r == NewReport(id, ins, clock)
       IN /\ reports' = reports @@ (id :> r)
          /\ currentReportId' = currentReportId + 1
          /\ last' = [op |-> "createReport", id |-> id, result |-> Some(r)]
    /\ UNCHANGED <<users, disasters, resources, cache, currentUserId,
                   currentDisasterId, currentResourceId, currentCacheId, clock>>

CreateReport(ins) == Step /\ MemCreateReport(ins) /\ UNCHANGED dbVars

\* updateReport as it would be if a missing id were inserted.
UpdateReportUpsert(id, updates) ==
    /\ Step
    /\ UNCHANGED dbVars
    /\ /\ LET r == IF id \in DOMAIN reports THEN Merge(reports[id], updates) ELSE updates
          IN /\ reports' = (id :> r) @@ reports
             /\ last' = [op |-> "updateReport", id |-> id, updates |-> updates,
                         result |-> Some(r)]
       /\ UNCHANGED <<users, disasters, resources, cache, currentUserId,
                      currentDisasterId, currentReportId, currentResourceId,
                      currentCacheId, clock>>

UpdateReport(id, updates) ==
    /\ Step
    /\ UNCHANGED dbVars
    /\ IF id \notin DOMAIN reports
       THEN /\ last' = [op |-> "updateReport", id |-> id, updates |-> updates, result |-> Null]
            /\ UNCHANGED <<memVars, clock>>
       ELSE /\ LET r == Merge(reports[id], updates)
               IN /\ reports' = [reports EXCEPT ![id] = r]
                  /\ last' = [op |-> "updateReport", id |-> id, updates |-> updates,
                              result |-> Some(r)]
            /\ UNCHANGED <<users, disasters, resources, cache, currentUserId,
                           currentDisasterId, currentReportId, currentResourceId,
                           currentCacheId, clock>>

\* Truthiness of an optional number argument (if (disasterId)): undefined
\* and 0 are falsy.
TruthyNum(x) == x # Null /\ x # Some(0)

\* What getReports returns in the current state.
ReportsResult(disasterId) ==
    LET all == MapValues(reports)
        kept == IF TruthyNum(disasterId)
                THEN SelectSeq(all, LAMBDA r : r.disasterId = disasterId[1]) ELSE all
    IN SortByCreatedAtDesc(kept)

\* What getReport returns in the current state.
ReportResult(id) == IF id \in DOMAIN reports THEN Some(reports[id]) ELSE Null

(***************************************************************************)
(* Resources and the proximity query.                                      *)
(***************************************************************************)
InsertResources == { [disasterId |-> 2, name |-> "medical"] }

\* Coordinates are whole degrees.
ResourcePartials ==
    { [latitude |-> Some(0), longitude |-> Some(0)],
      [latitude |-> Some(1), longitude |-> Some(1)],
      [latitude |-> Some(1)] }

\* Partial<Resource> payloads of any shape the type allows.
AnyResourcePartials ==
    { [latitude |-> Some(1), longitude |-> Some(1)], [disasterId |-> 2],
      [createdAt |-> 9], [id |-> 9] }

ResourceIds == 1..currentResourceId

\* The disasterId a caller of getReports / getResources may pass: none, 0
\* (parseInt of "0"), and ids of disasters.
ListArgs == {Null, Some(0), Some(1), Some(2), Some(3)}

QueryDegrees == {0, 1}

\* Radii in km: none, a little more than one degree of arc, and more than
\* any distance on the globe's surface between two points of the grid.
QueryRadii == {0, 120, 20000}

\* The record createResource builds.
NewResource(id, ins, now) ==
    Merge(ins, [id |-> id, latitude |-> Null, longitude |-> Null, createdAt |-> now])

CreateResource(ins) ==
    /\ Step
    /\ UNCHANGED dbVars
    /\ /\ LET id == currentResourceId
              r == NewResource(id, ins, clock)
          IN /\ resources' = resources @@ (id :> r)
             /\ currentResourceId' = currentResourceId + 1
             /\ last' = [op |-> "createResource", id |-> id, result |-> Some(r)]
       /\ UNCHANGED <<users, disasters, reports, cache, currentUserId,
                      currentDisasterId, currentReportId, currentCacheId, clock>>

UpdateResource(id, updates) ==
    /\ Step
    /\ UNCHANGED dbVars
    /\ IF id \notin DOMAIN resources
       THEN /\ last' = [op |-> "updateResource", id |-> id, updates |-> updates, result |-> Null]
            /\ UNCHANGED <<memVars, clock>>
       ELSE /\ LET r == Merge(resources[id], updates)
               IN /\ resources' = [resources EXCEPT ![id] = r]
                  /\ last' = [op |-> "updateResource", id |-> id, updates |-> updates,
                              result |-> Some(r)]
            /\ UNCHANGED <<users, disasters, reports, cache, currentUserId,
                           currentDisasterId, currentReportId, currentResourceId,
                           currentCacheId, clock>>

\* What getResources returns in the current state.
ResourcesResult(disasterId) ==
    LET all == MapValues(resources)
        kept == IF TruthyNum(disasterId)
                THEN SelectSeq(all, LAMBDA r : r.disasterId = disasterId[1]) ELSE all
    IN SortByCreatedAtDesc(kept)

\* sin(d/2)^2 for a difference of d whole degrees, times 10^8.
SinHalfSq(d) ==
    CASE d = 0 -> 0
      [] d \in {-1, 1} -> 7615
      [] d \in {-2, 2} -> 30459

\* cos of a whole number of degrees, times 10^4.
Cos(deg) ==
    CASE deg = 0 -> 10000
      [] deg \in {-1, 1} -> 9998
      [] deg \in {-2, 2} -> 9994

\* Math.sqrt, rounded down (bisection between lo and hi).
RECURSIVE ISqrtBetween(_, _, _)
ISqrtBetween(n, lo, hi) ==
    IF lo = hi THEN lo
    ELSE LET mid == (lo + hi + 1) \div 2
         IN IF mid * mid <= n THEN ISqrtBetween(n, mid, hi) ELSE ISqrtBetween(n, lo, mid - 1)

ISqrt(n) == ISqrtBetween(n, 0, 10000)

\* calculateDistance: the haversine formula in fixed point, in whole km
\* (rounded down).  a is scaled by 10^8, c by 10^4.  For the angles of the
\* grid 2 * atan2(sqrt(a), sqrt(1 - a)) = 2 * asin(sqrt(a)) agrees with
\* 2 * sqrt(a) to the precision kept.
CalculateDistance(lat1, lon1, lat2, lon2) ==
    LET R == 6371
        a == SinHalfSq(lat2 - lat1) +
             (((Cos(lat1) * Cos(lat2)) \div 10000) * SinHalfSq(lon2 - lon1)) \div 10000
        c == 2 * ISqrt(a)
    IN (R * c) \div 10000

\* !x for a nullable number: null and 0 are falsy.
FalsyNum(x) == x = Null \/ x = Some(0)

\* A nullable number used in arithmetic: null converts to 0.
ToNumber(x) == IF x = Null THEN 0 ELSE x[1]

\* The filter callback as it would be without the test for absent
\* coordinates.
IsNearUnguarded(resource, latitude, longitude, radiusKm) ==
    CalculateDistance(latitude, longitude,
                      ToNumber(resource.latitude), ToNumber(resource.longitude))
      <= radiusKm

\* The filter callback of getResourcesNear.
IsNear(resource, latitude, longitude, radiusKm) ==
    IF FalsyNum(resource.latitude) \/ FalsyNum(resource.longitude) THEN FALSE
    ELSE CalculateDistance(latitude, longitude,
                           ToNumber(resource.latitude), ToNumber(resource.longitude))
           <= radiusKm

\* What getResourcesNear returns in the current state.
ResourcesNearResult(latitude, longitude, radiusKm) ==
    SelectSeq(MapValues(resources), LAMBDA r : IsNear(r, latitude, longitude, radiusKm))

(***************************************************************************)
(* Cache.  A ttl is given in eighths of an hour (8 is 1 h, 16 is 2 h).     *)
(***************************************************************************)
CacheKeys == {"k1", "k2"}

CacheValues == {"v1", "v2"}

Ttls == {8, 16}

\* Ttls that are not whole hours: 0.25 h (the social-media route) and 1.5 h,
\* next to 1 h.
FracTtls == {2, 8, 12}

\* Array.from(this.cache.values()).find(c => c.key === key)
FindCached(key) ==
    LET hits == SelectSeq(MapValues(cache), LAMBDA c : c.key = key)
    IN IF hits = <<>> THEN Null ELSE Some(Head(hits))

\* The read-side test as it would be with >=.
IsExpiredOnReadInclusive(entry, now) == now >= entry.expiresAt

\* The read-side test as it would be if nothing ever expired.
IsExpiredOnReadNever(entry, now) == FALSE

\* new Date() > cached.expiresAt
IsExpiredOnRead(entry, now) == now > entry.expiresAt

\* getCacheValue as it would be if an expired entry were reported absent but
\* left in the cache.
GetCacheValueNoEvict(key) ==
    /\ Step
    /\ UNCHANGED dbVars
    /\ LET cached == FindCached(key)
       IN /\ IF cached = Null \/ IsExpiredOnRead(cached[1], clock)
             THEN last' = [op |-> "getCacheValue", key |-> key, found |-> cached, result |-> Null]
             ELSE last' = [op |-> "getCacheValue", key |-> key, found |-> cached,
                           result |-> Some(cached[1].value)]
          /\ UNCHANGED <<users, disasters, reports, resources, cache, currentUserId,
                         currentDisasterId, currentReportId, currentResourceId,
                         currentCacheId, clock>>

GetCacheValue(key) ==
    /\ Step
    /\ UNCHANGED dbVars
    /\ LET cached == FindCached(key)
       IN /\ IF cached = Null
             THEN /\ last' = [op |-> "getCacheValue", key |-> key, found |-> cached, result |-> Null]
                  /\ UNCHANGED cache
             ELSE IF IsExpiredOnRead(cached[1], clock)
             THEN /\ cache' = [k \in DOMAIN cache \ {cached[1].id} |-> cache[k]]
                  /\ last' = [op |-> "getCacheValue", key |-> key, found |-> cached, result |-> Null]
             ELSE /\ last' = [op |-> "getCacheValue", key |-> key, found |-> cached,
                              result |-> Some(cached[1].value)]
                  /\ UNCHANGED cache
          /\ UNCHANGED <<users, disasters, reports, resources, currentUserId,
                         currentDisasterId, currentReportId, currentResourceId,
                         currentCacheId, clock>>

\* expiresAt.setHours(expiresAt.getHours() + ttlHours): setHours converts its
\* argument to an integer (rounding toward zero) and keeps the minutes,
\* seconds and milliseconds, so only the whole hours of the ttl are added.
SetHours(now, ttl) == now + 8 * (ttl \div 8)

\* setCacheValue as a lookup would see it if it could run between the
\* removal of the existing entry and the insertion of the new one.
SetCacheValueTorn(key, value, ttl) ==
    /\ Step
    /\ UNCHANGED dbVars
    /\ LET existing == FindCached(key)
           removed == IF existing = Null THEN cache
                      ELSE [k \in DOMAIN cache \ {existing[1].id} |-> cache[k]]
           id == currentCacheId
           entry == [id |-> id, key |-> key, value |-> value, expiresAt |-> SetHours(clock, ttl)]
       IN /\ cache' = IF existing = Null THEN removed @@ (id :> entry) ELSE removed
          /\ currentCacheId' = currentCacheId + 1
          /\ last' = [op |-> "setCacheValue", key |-> key, value |-> value, ttl |-> ttl,
                      replaced |-> existing]
          /\ UNCHANGED <<users, disasters, reports, resources, currentUserId,
                         currentDisasterId, currentReportId, currentResourceId, clock>>

\* setCacheValue as it would be without the removal of the existing entry.
SetCacheValueKeepExisting(key, value, ttl) ==
    /\ Step
    /\ UNCHANGED dbVars
    /\ LET existing == FindCached(key)
           id == currentCacheId
           entry == [id |-> id, key |-> key, value |-> value, expiresAt |-> SetHours(clock, ttl)]
       IN /\ cache' = cache @@ (id :> entry)
          /\ currentCacheId' = currentCacheId + 1
          /\ last' = [op |-> "setCacheValue", key |-> key, value |-> value, ttl |-> ttl,
                      replaced |-> existing]
          /\ UNCHANGED <<users, disasters, reports, resources, currentUserId,
                         currentDisasterId, currentReportId, currentResourceId, clock>>

SetCacheValue(key, value, ttl) ==
    /\ Step
    /\ UNCHANGED dbVars
    /\ LET existing == FindCached(key)
           removed == IF existing = Null THEN cache
                      ELSE [k \in DOMAIN cache \ {existing[1].id} |-> cache[k]]
           id == currentCacheId
           entry == [id |-> id, key |-> key, value |-> value, expiresAt |-> SetHours(clock, ttl)]
       IN /\ cache' = removed @@ (id :> entry)
          /\ currentCacheId' = currentCacheId + 1
          /\ last' = [op |-> "setCacheValue", key |-> key, value |-> value, ttl |-> ttl,
                      replaced |-> existing]
          /\ UNCHANGED <<users, disasters, reports, resources, currentUserId,
                         currentDisasterId, currentReportId, currentResourceId, clock>>

\* The sweep's test as it would be if nothing ever expired.
IsExpiredOnSweepNever(entry, now) == FALSE

\* The sweep's test as it would be with <=.
IsExpiredOnSweepInclusive(entry, now) == entry.expiresAt <= now

\* c.expiresAt < now
IsExpiredOnSweep(entry, now) == entry.expiresAt < now

ClearExpiredCache ==
    /\ Step
    /\ UNCHANGED dbVars
    /\ /\ cache' = [k \in {i \in DOMAIN cache : ~IsExpiredOnSweep(cache[i], clock)} |-> cache[k]]
       /\ last' = [op |-> "clearExpiredCache",
                   removed |-> {i \in DOMAIN cache : IsExpiredOnSweep(cache[i], clock)},
                   removedKeys |-> {cache[i].key : i \in {j \in DOMAIN cache :
                                                            IsExpiredOnSweep(cache[j], clock)}}]
       /\ UNCHANGED <<users, disasters, reports, resources, currentUserId,
                      currentDisasterId, currentReportId, currentResourceId,
                      currentCacheId, clock>>

(***************************************************************************)
(* DatabaseStorage, disasters and reports tables.  Each method is one SQL   *)
(* statement.  The partials used here carry no id column.                  *)
(***************************************************************************)
EqPartials == { [title |-> "t2"], [ownerId |-> "citizen1"] }

\* The row an insert produces: the supplied columns over the column
\* defaults of the table.
DbNewDisaster(id, ins, now) ==
    Merge([id |-> id, latitude |-> Null, longitude |-> Null,
           createdAt |-> now, updatedAt |-> now,
           auditTrail |-> << [action |-> "create", userId |-> ins.ownerId,
                              timestamp |-> ToISOString(now)] >>],
          ins)

DbCreateDisaster(ins) ==
    LET id == dbDisasterSeq
        d == DbNewDisaster(id, ins, clock)
    IN /\ dbDisasters' = dbDisasters @@ (id :> d)
       /\ dbDisasterSeq' = dbDisasterSeq + 1
       /\ dbLast' = [op |-> "createDisaster", id |-> id, result |-> Some(d)]
       /\ UNCHANGED <<dbReports, dbReportSeq, dbCache, dbGet, requests>>

\* db.update(disasters).set(updates).where(eq(disasters.id, id)).returning()
DbUpdateDisaster(id, updates) ==
    IF id \notin DOMAIN dbDisasters
    THEN /\ dbLast' = [op |-> "updateDisaster", id |-> id, updates |-> updates,
                       before |-> Null, result |-> Null]
         /\ UNCHANGED <<dbDisasters, dbDisasterSeq, dbReports, dbReportSeq, dbCache, dbGet, requests>>
    ELSE LET d == Merge(dbDisasters[id], updates)
         IN /\ dbDisasters' = [dbDisasters EXCEPT ![id] = d]
            /\ dbLast' = [op |-> "updateDisaster", id |-> id, updates |-> updates,
                          before |-> Some(dbDisasters[id]), result |-> Some(d)]
            /\ UNCHANGED <<dbDisasterSeq, dbReports, dbReportSeq, dbCache, dbGet, requests>>

\* result.rowCount > 0
DbDeleteDisaster(id) ==
    /\ dbDisasters' = [k \in DOMAIN dbDisasters \ {id} |-> dbDisasters[k]]
    /\ dbLast' = [op |-> "deleteDisaster", id |-> id, result |-> (id \in DOMAIN dbDisasters)]
    /\ UNCHANGED <<dbDisasterSeq, dbReports, dbReportSeq, dbCache, dbGet, requests>>

\* The row an insert into reports produces: the supplied columns over the
\* column defaults of the table.
DbNewReport(id, ins, now) ==
    Merge([id |-> id, imageUrl |-> Null, verificationStatus |-> "pending",
           createdAt |-> now],
          ins)

\* db.insert(reports).values(insertReport).returning()
DbCreateReport(ins) ==
    LET id == dbReportSeq
        r == DbNewReport(id, ins, clock)
    IN /\ dbReports' = dbReports @@ (id :> r)
       /\ dbReportSeq' = dbReportSeq + 1
       /\ dbLast' = [op |-> "createReport", id |-> id, result |-> Some(r)]
       /\ UNCHANGED <<dbDisasters, dbDisasterSeq, dbCache, dbGet, requests>>

(***************************************************************************)
(* DatabaseStorage, cache table.  setCacheValue and clearExpiredCache are   *)
(* one SQL statement each.  getCacheValue is two: the select, and, after    *)
(* the method has compared the row it read with the clock, a delete by      *)
(* key; the method is suspended at both (await), so that other calls'       *)
(* statements can run in between.  dbGet is the call in flight: where it    *)
(* is, its key and the row it read.                                         *)
(***************************************************************************)
\* What a call on the cache table leaves alone.
dbTables == <<dbDisasters, dbDisasterSeq, dbReports, dbReportSeq>>

\* The row with this key, if there is one.
DbRow(key) == IF key \in DOMAIN dbCache THEN Some(dbCache[key]) ELSE Null

\* new Date(Date.now() + ttlHours * 60 * 60 * 1000), then
\* insert ... on conflict (key) do update set value, expires_at
DbSetCacheValue(key, value, ttl) ==
    /\ Step
    /\ LET row == [key |-> key, value |-> value, expiresAt |-> clock + ttl]
       IN /\ dbCache' = [k \in DOMAIN dbCache \cup {key} |->
                            IF k = key THEN row ELSE dbCache[k]]
          /\ dbLast' = [op |-> "setCacheValue", key |-> key, row |-> row]
    /\ UNCHANGED <<memVars, clock, last, dbTables, dbGet, requests>>

\* const [entry] = await db.select().from(cache).where(eq(cache.key, key))
DbGetSelect(key) ==
    /\ Step
    /\ dbGet.pc = "idle"
    /\ dbGet' = [pc |-> "selected", key |-> key, entry |-> DbRow(key)]
    /\ dbLast' = [op |-> "select", key |-> key]
    /\ UNCHANGED <<memVars, clock, last, dbTables, dbCache, requests>>

\* The method resumes with the row it read: absent, it returns undefined;
\* live, it returns the value; expired, it sends the delete.
DbGetCheck ==
    /\ Step
    /\ dbGet.pc = "selected"
    /\ IF dbGet.entry = Null
       THEN /\ dbGet' = [pc |-> "idle"]
            /\ dbLast' = [op |-> "getCacheValue", key |-> dbGet.key, read |-> Null,
                          deleted |-> Null, result |-> Null]
       ELSE IF IsExpiredOnRead(dbGet.entry[1], clock)
       THEN /\ dbGet' = [dbGet EXCEPT !.pc = "deleting"]
            /\ dbLast' = [op |-> "delete", key |-> dbGet.key]
       ELSE /\ dbGet' = [pc |-> "idle"]
            /\ dbLast' = [op |-> "getCacheValue", key |-> dbGet.key, read |-> dbGet.entry,
                          deleted |-> Null, result |-> Some(dbGet.entry[1].value)]
    /\ UNCHANGED <<memVars, clock, last, dbTables, dbCache, requests>>

\* await db.delete(cache).where(eq(cache.key, key)); return undefined
\* The call's record keeps the row it read and the row the delete removed.
DbGetDelete ==
    /\ Step
    /\ dbGet.pc = "deleting"
    /\ dbCache' = [k \in DOMAIN dbCache \ {dbGet.key} |-> dbCache[k]]
    /\ dbGet' = [pc |-> "idle"]
    /\ dbLast' = [op |-> "getCacheValue", key |-> dbGet.key, read |-> dbGet.entry,
                  deleted |-> DbRow(dbGet.key), result |-> Null]
    /\ UNCHANGED <<memVars, clock, last, dbTables, requests>>

\* delete from cache where expires_at < NOW()
DbClearExpiredCache ==
    /\ Step
    /\ dbCache' = [k \in {i \in DOMAIN dbCache : ~IsExpiredOnSweep(dbCache[i], clock)} |->
                      dbCache[k]]
    /\ dbLast' = [op |-> "clearExpiredCache"]
    /\ UNCHANGED <<memVars, clock, last, dbTables, dbGet, requests>>

\* The same call made on both implementations.
EqCreateDisaster(ins) == Step /\ MemCreateDisaster(ins) /\ DbCreateDisaster(ins)

EqUpdateDisaster(id, updates) == Step /\ MemUpdateDisaster(id, updates) /\ DbUpdateDisaster(id, updates)

EqDeleteDisaster(id) == Step /\ MemDeleteDisaster(id) /\ DbDeleteDisaster(id)

EqCreateReport(ins) == Step /\ MemCreateReport(ins) /\ DbCreateReport(ins)

(***************************************************************************)
(* POST /api/disasters/:id/verify-image.  The handler is suspended at each *)
(* await; what runs between two awaits runs in one piece, and a MemStorage *)
(* method, having no await of its own, takes effect at the moment it is    *)
(* called.  requests holds the handlers in flight: where each is, its      *)
(* imageUrl and reportId, and what it has been given so far.  Handlers of  *)
(* other requests, and other calls of the store, run while one is          *)
(* suspended.                                                              *)
(***************************************************************************)
\* req.body.imageUrl: absent (or empty), or the URL of an image.
ImageUrls == {"", "img"}

\* req.body.reportId: absent, a report the store starts with, the next
\* report to be created.
ReportIdArgs == {Null, Some(1), Some(3)}

\* `image-verification-${Buffer.from(imageUrl).toString('base64')}`: the
\* prefix and an encoding of the URL that maps different URLs to different
\* strings.
ImageCacheKey(url) == <<"image-verification-", url>>

\* The ttl the handler caches a result with: 24 hours.
VerifyTtl == 192

\* The slot of the next handler: the least one not in flight.
FreeSlot == Min((1..MaxRequests) \ DOMAIN requests)

\* What getCacheValue(key) returns now, and the cache it leaves.
LookupResult(key) ==
    LET cached == FindCached(key)
    IN IF cached = Null \/ IsExpiredOnRead(cached[1], clock) THEN Null
       ELSE Some(cached[1].value)

CacheAfterLookup(key) ==
    LET cached == FindCached(key)
    IN IF cached # Null /\ IsExpiredOnRead(cached[1], clock)
       THEN [k \in DOMAIN cache \ {cached[1].id} |-> cache[k]]
       ELSE cache

\* The cache setCacheValue(key, value, ttl) leaves.
CacheAfterStore(key, value, ttl) ==
    LET existing == FindCached(key)
        removed == IF existing = Null THEN cache
                   ELSE [k \in DOMAIN cache \ {existing[1].id} |-> cache[k]]
    IN removed @@ (currentCacheId :>
                     [id |-> currentCacheId, key |-> key, value |-> value,
                      expiresAt |-> SetHours(clock, ttl)])

\* The reports updateReport(id, updates) leaves.
ReportsAfterUpdate(id, updates) ==
    IF id \in DOMAIN reports
    THEN [reports EXCEPT ![id] = Merge(reports[id], updates)]
    ELSE reports

\* verificationResult.isAuthentic ? 'verified' : 'disputed'
StatusOf(result) == IF result.isAuthentic THEN "verified" ELSE "disputed"

\* res.json(...) or res.status(...).json(...): the handler is done.
Respond(s, code, reportId, result, fromCache) ==
    /\ requests' = [k \in DOMAIN requests \ {s} |-> requests[k]]
    /\ last' = [op |-> "verifyImage", code |-> code, reportId |-> reportId,
                result |-> result, fromCache |-> fromCache]

\* The request arrives: without an imageUrl it is answered 400; otherwise
\* the handler calls checkCache(cacheKey) and is suspended.
VerifyBegin(url, reportId) ==
    /\ Step
    /\ Cardinality(DOMAIN requests) < MaxRequests
    /\ IF ~TruthyStr(url)
       THEN /\ last' = [op |-> "verifyImage", code |-> 400, reportId |-> reportId,
                        result |-> Null, fromCache |-> FALSE]
            /\ UNCHANGED <<cache, requests>>
       ELSE /\ cache' = CacheAfterLookup(ImageCacheKey(url))
            /\ requests' = requests @@
                 (FreeSlot :> [pc |-> "checked", url |-> url, reportId |-> reportId,
                               result |-> LookupResult(ImageCacheKey(url))])
            /\ last' = [op |-> "getCacheValue", key |-> ImageCacheKey(url),
                        found |-> FindCached(ImageCacheKey(url)),
                        result |-> LookupResult(ImageCacheKey(url))]
    /\ UNCHANGED <<users, disasters, reports, resources, currentUserId,
                   currentDisasterId, currentReportId, currentResourceId,
                   currentCacheId, clock>>
    /\ UNCHANGED <<dbTables, dbLast, dbCache, dbGet>>

\* if (cachedResult) return res.json(cachedResult); otherwise the handler
\* calls mockApiService.verifyImage(imageUrl) and is suspended.
VerifyAfterCheck(s) ==
    /\ Step
    /\ s \in DOMAIN requests
    /\ requests[s].pc = "checked"
    /\ IF requests[s].result # Null
       THEN Respond(s, 200, requests[s].reportId, requests[s].result, TRUE)
       ELSE /\ requests' = [requests EXCEPT ![s].pc = "verifying"]
            /\ last' = [op |-> "mockVerifyImage", url |-> requests[s].url]
    /\ UNCHANGED <<memVars, clock, dbTables, dbLast, dbCache, dbGet>>

\* The mock service answers, authentic or not; the handler calls
\* setCache(cacheKey, verificationResult, 24) and is suspended.
VerifyAfterMock(s, authentic) ==
    /\ Step
    /\ s \in DOMAIN requests
    /\ requests[s].pc = "verifying"
    /\ LET result == [isAuthentic |-> authentic]
           key == ImageCacheKey(requests[s].url)
       IN /\ cache' = CacheAfterStore(key, result, VerifyTtl)
          /\ currentCacheId' = currentCacheId + 1
          /\ requests' = [requests EXCEPT ![s].pc = "stored", ![s].result = Some(result)]
          /\ last' = [op |-> "setCacheValue", key |-> key, value |-> result,
                      ttl |-> VerifyTtl, replaced |-> FindCached(key)]
    /\ UNCHANGED <<users, disasters, reports, resources, currentUserId,
                   currentDisasterId, currentReportId, currentResourceId, clock>>
    /\ UNCHANGED <<dbTables, dbLast, dbCache, dbGet>>

\* if (reportId) the handler calls storage.updateReport(parseInt(reportId),
\* { verificationStatus: status }) and is suspended; otherwise it answers.
VerifyAfterSetCache(s) ==
    /\ Step
    /\ s \in DOMAIN requests
    /\ requests[s].pc = "stored"
    /\ IF TruthyNum(requests[s].reportId)
       THEN LET id == requests[s].reportId[1]
                updates == [verificationStatus |-> StatusOf(requests[s].result[1])]
            IN /\ reports' = ReportsAfterUpdate(id, updates)
               /\ requests' = [requests EXCEPT ![s].pc = "updated"]
               /\ last' = [op |-> "updateReport", id |-> id, updates |-> updates,
                           result |-> IF id \in DOMAIN reports
                                      THEN Some(Merge(reports[id], updates)) ELSE Null]
       ELSE /\ Respond(s, 200, requests[s].reportId, requests[s].result, FALSE)
            /\ UNCHANGED reports
    /\ UNCHANGED <<users, disasters, resources, cache, currentUserId,
                   currentDisasterId, currentReportId, currentResourceId,
                   currentCacheId, clock>>
    /\ UNCHANGED <<dbTables, dbLast, dbCache, dbGet>>

\* res.json(verificationResult)
VerifyAfterUpdate(s) ==
    /\ Step
    /\ s \in DOMAIN requests
    /\ requests[s].pc = "updated"
    /\ Respond(s, 200, requests[s].reportId, requests[s].result, FALSE)
    /\ UNCHANGED <<memVars, clock, dbTables, dbLast, dbCache, dbGet>>

(***************************************************************************)
(* The periodic sweep: setInterval(..., 5 * 60 * 1000) calls               *)
(* storage.clearExpiredCache() every five minutes for as long as the       *)
(* server runs, whatever requests arrive; an error of one run is caught    *)
(* and the timer goes on.  Time passes an hour at a time up to MaxClock.   *)
(***************************************************************************)
Sweep ==
    /\ cache' = [k \in {i \in DOMAIN cache : ~IsExpiredOnSweep(cache[i], clock)} |-> cache[k]]
    /\ last' = [op |-> "clearExpiredCache",
                removed |-> {i \in DOMAIN cache : IsExpiredOnSweep(cache[i], clock)},
                removedKeys |-> {cache[i].key : i \in {j \in DOMAIN cache :
                                                         IsExpiredOnSweep(cache[j], clock)}}]
    /\ UNCHANGED <<users, disasters, reports, resources, currentUserId,
                   currentDisasterId, currentReportId, currentResourceId,
                   currentCacheId, clock, budget, prev, dbVars>>

TimePasses ==
    /\ clock < MaxClock
    /\ clock' = clock + 8
    /\ last' = [op |-> "tick"]
    /\ UNCHANGED <<memVars, budget, prev, dbVars>>

(***************************************************************************)
(* Specifications.                                                         *)
(***************************************************************************)
NextDisasters ==
    \/ Tick(1)
    \/ \E ins \in InsertDisasters : CreateDisaster(ins)
    \/ \E id \in DisasterIds, u \in DisasterPartials : UpdateDisaster(id, u)
    \/ \E id \in DisasterIds : DeleteDisaster(id)

InitDisasters == Init /\ budget = MaxDisasterCalls /\ prev = Null

SpecDisasters == InitDisasters /\ [][NextDisasters]_vars

NextResources ==
    \/ Tick(1)
    \/ \E ins \in InsertResources : CreateResource(ins)
    \/ \E id \in ResourceIds, u \in ResourcePartials : UpdateResource(id, u)

InitResources == Init /\ budget = MaxResourceCalls /\ prev = Null

SpecResources == InitResources /\ [][NextResources]_vars

NextCache ==
    \/ \E d \in {1, 8} : Tick(d)
    \/ \E k \in CacheKeys, v \in CacheValues, t \in Ttls : SetCacheValue(k, v, t)
    \/ \E k \in CacheKeys : GetCacheValue(k)
    \/ ClearExpiredCache

InitCache == Init /\ budget = MaxCacheCalls /\ prev = Null

SpecCache == InitCache /\ [][NextCache]_vars

\* The cache with ttls that are not whole hours.
NextTtl ==
    \/ Tick(1)
    \/ \E k \in CacheKeys, v \in CacheValues, t \in FracTtls : SetCacheValue(k, v, t)
    \/ \E k \in CacheKeys : GetCacheValue(k)

InitTtl == Init /\ budget = MaxTtlCalls /\ prev = Null

SpecTtl == InitTtl /\ [][NextTtl]_vars

\* Deleting disasters while their reports and resources, and cache entries,
\* come and go.
NextDelete ==
    \/ \E ins \in InsertDisasters : CreateDisaster(ins)
    \/ \E id \in DisasterIds : DeleteDisaster(id)
    \/ \E ins \in InsertReports : CreateReport(ins)
    \/ \E ins \in InsertResources : CreateResource(ins)
    \/ \E k \in CacheKeys, v \in CacheValues, t \in Ttls : SetCacheValue(k, v, t)

InitDelete == Init /\ budget = MaxDeleteCalls /\ prev = Null

SpecDelete == InitDelete /\ [][NextDelete]_vars

\* Two cache calls made back to back (the periodic sweep, a lookup, a
\* store), at instants an hour or two apart or at the same instant, with
\* every kind of ttl.
NextRace ==
    \/ \E d \in {8, 16} : Tick(d)
    \/ \E k \in CacheKeys, v \in CacheValues, t \in Ttls \cup FracTtls : SetCacheValue(k, v, t)
    \/ \E k \in CacheKeys : GetCacheValue(k)
    \/ ClearExpiredCache

InitRace == Init /\ budget = MaxRaceCalls /\ prev = Some([op |-> "init"])

SpecRace == InitRace /\ [][NextRace]_vars

\* Disasters created and updated with and without an owner in the partial.
NextAudit ==
    \/ Tick(1)
    \/ \E ins \in InsertDisasters : CreateDisaster(ins)
    \/ \E id \in DisasterIds, u \in OwnerPartials : UpdateDisaster(id, u)

InitAudit == Init /\ budget = MaxAuditCalls /\ prev = Null

SpecAudit == InitAudit /\ [][NextAudit]_vars

\* Disasters, reports and resources created, updated with partials of any
\* shape, and deleted.
NextPartial ==
    \/ Tick(1)
    \/ \E ins \in InsertDisasters : CreateDisaster(ins)
    \/ \E id \in DisasterIds, u \in DisasterPartials : UpdateDisaster(id, u)
    \/ \E id \in DisasterIds : DeleteDisaster(id)
    \/ \E ins \in InsertReports : CreateReport(ins)
    \/ \E id \in ReportIds, u \in AnyReportPartials : UpdateReport(id, u)
    \/ \E ins \in InsertResources : CreateResource(ins)
    \/ \E id \in ResourceIds, u \in AnyResourcePartials : UpdateResource(id, u)

InitPartial == Init /\ budget = MaxPartialCalls /\ prev = Null

SpecPartial == InitPartial /\ [][NextPartial]_vars

\* The cache of DatabaseStorage: stores, the sweep, and one lookup at a
\* time whose statements the other calls' statements may come between.
NextDbCache ==
    \/ \E d \in {8, 16} : Tick(d)
    \/ \E k \in CacheKeys, v \in CacheValues, t \in Ttls : DbSetCacheValue(k, v, t)
    \/ \E k \in CacheKeys : DbGetSelect(k)
    \/ DbGetCheck
    \/ DbGetDelete
    \/ DbClearExpiredCache

InitDbCache == Init /\ budget = MaxDbCacheCalls /\ prev = Null

SpecDbCache == InitDbCache /\ [][NextDbCache]_vars

\* verify-image requests, at most MaxRequests of them in flight, while
\* reports are created and more than the ttl of a cached result passes.
NextVerify ==
    \/ Tick(VerifyTtl + 8)
    \/ \E ins \in InsertReports : CreateReport(ins)
    \/ \E url \in ImageUrls, r \in ReportIdArgs : VerifyBegin(url, r)
    \/ \E s \in 1..MaxRequests : VerifyAfterCheck(s)
    \/ \E s \in 1..MaxRequests, authentic \in BOOLEAN : VerifyAfterMock(s, authentic)
    \/ \E s \in 1..MaxRequests : VerifyAfterSetCache(s)
    \/ \E s \in 1..MaxRequests : VerifyAfterUpdate(s)

InitVerify == Init /\ budget = MaxVerifyCalls /\ prev = Null

SpecVerify == InitVerify /\ [][NextVerify]_vars

\* The cache under the running server: a bounded number of stores and
\* lookups, while the timer keeps firing and time keeps passing.  The timer
\* is not starved (its callback runs whenever it is due) and the clock does
\* not stop: weak fairness of both.
NextSweep ==
    \/ TimePasses
    \/ Sweep
    \/ \E k \in CacheKeys, v \in CacheValues, t \in Ttls : SetCacheValue(k, v, t)
    \/ \E k \in CacheKeys : GetCacheValue(k)

InitSweep == Init /\ budget = MaxSweepCalls /\ prev = Null

SpecSweep == InitSweep /\ [][NextSweep]_vars /\ WF_vars(Sweep) /\ WF_vars(TimePasses)

\* Every method of the exported storage object, in any order.
Next ==
    \/ Tick(1)
    \/ \E ins \in InsertUsers : CreateUser(ins)
    \/ \E ins \in InsertDisasters : CreateDisaster(ins)
    \/ \E id \in DisasterIds, u \in DisasterPartials : UpdateDisaster(id, u)
    \/ \E id \in DisasterIds : DeleteDisaster(id)
    \/ \E ins \in InsertReports : CreateReport(ins)
    \/ \E id \in ReportIds, u \in ReportPartials : UpdateReport(id, u)
    \/ \E ins \in InsertResources : CreateResource(ins)
    \/ \E id \in ResourceIds, u \in ResourcePartials : UpdateResource(id, u)
    \/ \E k \in CacheKeys, v \in CacheValues, t \in Ttls : SetCacheValue(k, v, t)
    \/ \E k \in CacheKeys : GetCacheValue(k)
    \/ ClearExpiredCache

InitAll == Init /\ budget = MaxCalls /\ prev = Null

Spec == InitAll /\ [][Next]_vars

\* MemStorage and DatabaseStorage given the same calls.
NextEq ==
    \/ Tick(1)
    \/ \E ins \in InsertDisasters : EqCreateDisaster(ins)
    \/ \E id \in DisasterIds, u \in EqPartials : EqUpdateDisaster(id, u)
    \/ \E id \in DisasterIds : EqDeleteDisaster(id)
    \/ \E ins \in InsertReports : EqCreateReport(ins)

InitEq == Init /\ budget = MaxEqCalls /\ prev = Null

SpecEq == InitEq /\ [][NextEq]_vars

(***************************************************************************)
(* Properties.                                                             *)
(***************************************************************************)
IsPrefix(a, b) == Len(a) <= Len(b) /\ SubSeq(b, 1, Len(a)) = a

Trail(m, id) == m[id].auditTrail

\* C1: right after createDisaster the new disaster's audit trail has exactly
\* one entry, and every updateDisaster call on an existing disaster makes
\* its trail exactly one entry longer, whatever the partial (also an empty
\* one, also one that changes no value).
C1_AuditLength ==
    /\ [](last.op = "createDisaster" =>
            /\ last.id \in DOMAIN disasters
            /\ Len(Trail(disasters, last.id)) = 1
            /\ Len(last.result[1].auditTrail) = 1)
    /\ [][\A id \in DOMAIN disasters :
            (last'.op = "updateDisaster" /\ last'.id = id) =>
               /\ id \in DOMAIN disasters'
               /\ Len(Trail(disasters', id)) = Len(Trail(disasters, id)) + 1
               /\ last'.result = Some(disasters'[id])]_vars

\* An update with an empty partial has been applied to a disaster that was
\* created and updated before.
C1_Witness ==
    /\ last.op = "updateDisaster"
    /\ DOMAIN last.updates = {}
    /\ last.id = 3
    /\ last.result # Null
    /\ Len(Trail(disasters, 3)) = 3

\* C2: audit entries are never removed or reordered: in every step the
\* trail of a disaster that exists before and after is a prefix of its trail
\* afterwards, also when the partial of updateDisaster carries an auditTrail.
\* (Ids are not reused, so a disaster that exists in two states exists in
\* every state between them.)
C2_AuditAppendOnly ==
    [][\A id \in DOMAIN disasters \cap DOMAIN disasters' :
          IsPrefix(Trail(disasters, id), Trail(disasters', id))]_vars

\* An update whose partial carries an auditTrail field has been applied.
C2_Witness ==
    /\ last.op = "updateDisaster"
    /\ "auditTrail" \in DOMAIN last.updates
    /\ last.result # Null
    /\ Len(last.result[1].auditTrail) >= 3

\* C3: updateDisaster, updateReport and updateResource with an id that has
\* no record return the absent value and leave the whole store unchanged.
C3_UpdateAbsentNoEffect ==
    [][( \/ (last'.op = "updateDisaster" /\ last'.id \notin DOMAIN disasters)
         \/ (last'.op = "updateReport" /\ last'.id \notin DOMAIN reports)
         \/ (last'.op = "updateResource" /\ last'.id \notin DOMAIN resources) )
       => (last'.result = Null /\ memVars' = memVars)]_vars

\* updateReport was called with the id of no report, after other calls
\* changed the store.
C3_Witness ==
    /\ last.op = "updateReport"
    /\ last.id \notin DOMAIN reports
    /\ last.result = Null
    /\ budget = 0
    /\ reports # SampleReports

\* C4: every disaster that exists has a non-empty audit trail whose
\* timestamps never decrease along the sequence.
C4_TrailNonEmptyOrdered ==
    \A id \in DOMAIN disasters :
        LET t == Trail(disasters, id)
        IN /\ Len(t) >= 1
           /\ \A i, j \in 1..Len(t) :
                 i < j => ParseISO(t[i].timestamp) <= ParseISO(t[j].timestamp)

\* A disaster has been updated at two later instants.
C4_Witness ==
    \E id \in DOMAIN disasters :
        LET t == Trail(disasters, id)
        IN /\ Len(t) >= 3
           /\ ParseISO(t[1].timestamp) < ParseISO(t[Len(t) - 1].timestamp)
           /\ ParseISO(t[Len(t) - 1].timestamp) < ParseISO(t[Len(t)].timestamp)

\* C5: MemStorage and DatabaseStorage, given the same calls, return the
\* same results (and so the same audit trails).
C5_SameResults ==
    last.op \in {"createDisaster", "updateDisaster", "deleteDisaster"} =>
        (dbLast.op = last.op /\ dbLast.result = last.result)

\* The disasters that exist, newest creation first (ids are handed out in
\* creation order), that carry the tag.
RECURSIVE Reverse(_)
Reverse(seq) == IF seq = <<>> THEN <<>> ELSE Reverse(Tail(seq)) \o <<Head(seq)>>

NewestFirstWithTag(t) ==
    SelectSeq(Reverse(MapValues(disasters)), LAMBDA d : Includes(d.tags, t))

\* C6: getDisasters({tag: t}) returns exactly the disasters whose tags
\* contain t, sorted by creation time descending, any two of them in reverse
\* creation order, also when both were created at the same clock value.
C6_TagFilterNewestFirst ==
    \A t \in {"urgent", "flood", "fire"} :
        LET r == DisastersResult([tag |-> t])
        IN /\ r = NewestFirstWithTag(t)
           /\ \A i, j \in 1..Len(r) : i < j => r[i].createdAt >= r[j].createdAt

\* C7: getResourcesNear returns exactly the stored resources that have
\* coordinates and lie within radiusKm of the query point, whatever the
\* coordinates are (0 included).
C7_NearExactly ==
    \A lat \in QueryDegrees, lon \in QueryDegrees, radius \in QueryRadii :
        ResourcesNearResult(lat, lon, radius) =
            SelectSeq(MapValues(resources),
                      LAMBDA r : /\ r.latitude # Null
                                 /\ r.longitude # Null
                                 /\ CalculateDistance(lat, lon, r.latitude[1], r.longitude[1])
                                      <= radius)

\* C8: a resource with an absent coordinate is never returned by
\* getResourcesNear, for any query point and any radius.
C8_NoCoordinatesNeverNear ==
    \A lat \in QueryDegrees, lon \in QueryDegrees, radius \in QueryRadii :
        LET r == ResourcesNearResult(lat, lon, radius)
        IN \A i \in 1..Len(r) : r[i].latitude # Null /\ r[i].longitude # Null

\* The largest radius returns some resource while resources without a
\* latitude, and one with a latitude but no longitude, are stored.
C8_Witness ==
    /\ Len(ResourcesNearResult(0, 0, 20000)) >= 1
    /\ \E id \in DOMAIN resources : resources[id].latitude = Null
    /\ \E id \in DOMAIN resources :
          resources[id].latitude # Null /\ resources[id].longitude = Null

\* C9 as stated: getCacheValue returns the value iff an entry exists and its
\* expiry is strictly later than now; otherwise it returns absent and the
\* entry, if there was one, is gone.
C9_Original ==
    last.op = "getCacheValue" =>
        IF last.found # Null /\ last.found[1].expiresAt > clock
        THEN last.result = Some(last.found[1].value)
        ELSE /\ last.result = Null
             /\ last.found # Null => last.found[1].id \notin DOMAIN cache

\* C9 amended: getCacheValue returns the value iff an entry exists and its
\* expiry is not earlier than now (an expiry equal to now is still live);
\* otherwise it returns absent and the entry, if there was one, is gone.
\* An entry that is returned stays.
C9_GetCacheValue ==
    last.op = "getCacheValue" =>
        IF last.found # Null /\ last.found[1].expiresAt >= clock
        THEN /\ last.result = Some(last.found[1].value)
             /\ last.found[1].id \in DOMAIN cache
             /\ cache[last.found[1].id] = last.found[1]
        ELSE /\ last.result = Null
             /\ last.found # Null => last.found[1].id \notin DOMAIN cache

\* getCacheValue has read an entry whose expiry equals now, some time after
\* it was stored.
C9_Witness ==
    /\ last.op = "getCacheValue"
    /\ last.found # Null
    /\ last.found[1].expiresAt = clock
    /\ clock > 0
    /\ last.result # Null

\* C10 as stated: clearExpiredCache removes every entry whose expiry is at
\* or before now and leaves the others unchanged.
C10_Original ==
    [][last'.op = "clearExpiredCache" =>
          cache' = [k \in {i \in DOMAIN cache : cache[i].expiresAt > clock} |-> cache[k]]]_vars

\* C10 amended: clearExpiredCache removes every entry whose expiry is
\* strictly before now and leaves every entry whose expiry is now or later
\* unchanged.
C10_ClearExpired ==
    [][last'.op = "clearExpiredCache" =>
          cache' = [k \in {i \in DOMAIN cache : cache[i].expiresAt >= clock} |-> cache[k]]]_vars

\* A sweep has removed an entry and kept one whose expiry equals now.
C10_Witness ==
    /\ last.op = "clearExpiredCache"
    /\ last.removed # {}
    /\ \E id \in DOMAIN cache : cache[id].expiresAt = clock

\* C11: setCacheValue(key, value, ttl) stores an entry for key whose expiry
\* is now + ttl, for every positive ttl, fractional ones included (so that
\* the value is returned at every instant before now + ttl).
C11_ExpiryIsNowPlusTtl ==
    [][\A k \in CacheKeys :
          (last'.op = "setCacheValue" /\ last'.key = k) =>
             /\ FindCached(k)' # Null
             /\ FindCached(k)'[1].value = last'.value
             /\ FindCached(k)'[1].expiresAt = clock + last'.ttl]_vars

\* C12: in every state the cache holds at most one entry per key, and
\* right after setCacheValue(k, v, ttl) the one entry for k holds v and the
\* expiry of this call (here ttl is a whole number of hours), also when k
\* had an entry before.
C12_OneEntryPerKey ==
    /\ \A i, j \in DOMAIN cache : cache[i].key = cache[j].key => i = j
    /\ last.op = "setCacheValue" =>
          /\ Cardinality({i \in DOMAIN cache : cache[i].key = last.key}) = 1
          /\ FindCached(last.key) # Null
          /\ FindCached(last.key)[1].value = last.value
          /\ FindCached(last.key)[1].expiresAt = clock + last.ttl

\* setCacheValue(k, v2, 2 h) has replaced an entry for k that held another
\* value and an earlier expiry.
C12_Witness ==
    /\ last.op = "setCacheValue"
    /\ last.ttl = 16
    /\ last.replaced # Null
    /\ last.replaced[1].value # last.value
    /\ last.replaced[1].expiresAt < clock + 16
    /\ last.replaced[1].id \notin DOMAIN cache
    /\ Cardinality(DOMAIN cache) = 1

\* C13: a getCacheValue(k) made right after setCacheValue(k, v, ttl) with a
\* ttl of an hour or more returns v; a getCacheValue(k) made when the expiry
\* of k's entry has passed returns absent, and no entry for k is in the
\* cache afterwards.
C13_SetGetExpire ==
    /\ [][\A k \in CacheKeys :
            (last.op = "setCacheValue" /\ last.key = k /\ last.ttl >= 8
               /\ last'.op = "getCacheValue" /\ last'.key = k)
            => (last'.result = Some(last.value) /\ FindCached(k)' = FindCached(k))]_vars
    /\ [](( /\ last.op = "getCacheValue"
            /\ last.found # Null
            /\ last.found[1].expiresAt < clock )
          => (last.result = Null /\ FindCached(last.key) = Null))

\* getCacheValue found an entry whose expiry had passed, while the other key
\* still has its entry.
C13_Witness ==
    /\ last.op = "getCacheValue"
    /\ last.found # Null
    /\ last.found[1].expiresAt < clock
    /\ last.result = Null
    /\ Cardinality(DOMAIN cache) = 1

\* C14: deleteDisaster(id) returns true exactly when the disaster exists,
\* getDisaster(id) returns absent afterwards, a deleteDisaster on an id that
\* has no disaster changes nothing, and a second deleteDisaster on the same
\* id returns false; in MemStorage and in DatabaseStorage.
C14_DeleteDisaster ==
    [][\A id \in DisasterIds :
          (last'.op = "deleteDisaster" /\ last'.id = id) =>
             /\ last'.result = (id \in DOMAIN disasters)
             /\ DisasterResult(id)' = Null
             /\ id \notin DOMAIN disasters => memVars' = memVars
             /\ (last.op = "deleteDisaster" /\ last.id = id) =>
                   (last'.result = FALSE /\ memVars' = memVars)
             /\ dbLast'.result = (id \in DOMAIN dbDisasters)
             /\ id \notin DOMAIN dbDisasters'
             /\ id \notin DOMAIN dbDisasters =>
                   (dbDisasters' = dbDisasters /\ dbReports' = dbReports)]_vars

\* A sample disaster has been deleted twice in a row: the second call
\* returned false on both implementations.
C14_Witness ==
    /\ last.op = "deleteDisaster"
    /\ last.id = 2
    /\ last.result = FALSE
    /\ dbLast.op = "deleteDisaster"
    /\ dbLast.result = FALSE
    /\ DOMAIN disasters = {1}
    /\ budget = MaxEqCalls - 2

\* C15: deleteDisaster(id) removes at most the disaster id: users, reports,
\* resources, cache and every other disaster are unchanged, and every
\* report and resource whose disasterId is id is still returned by
\* getReports(id) and getResources(id).
C15_DeleteNoCascade ==
    /\ [][last'.op = "deleteDisaster" =>
            /\ users' = users /\ reports' = reports
            /\ resources' = resources /\ cache' = cache
            /\ DOMAIN disasters' = DOMAIN disasters \ {last'.id}
            /\ \A k \in DOMAIN disasters' : disasters'[k] = disasters[k]]_vars
    /\ [](last.op = "deleteDisaster" =>
            /\ LET got == ReportsResult(Some(last.id))
               IN \A i \in DOMAIN reports :
                     reports[i].disasterId = last.id =>
                        \E n \in 1..Len(got) : got[n] = reports[i]
            /\ LET got == ResourcesResult(Some(last.id))
               IN \A i \in DOMAIN resources :
                     resources[i].disasterId = last.id =>
                        \E n \in 1..Len(got) : got[n] = resources[i])

\* A disaster that has reports and resources has been deleted, and they are
\* still returned.
C15_Witness ==
    /\ last.op = "deleteDisaster"
    /\ last.result = TRUE
    /\ last.id \notin DOMAIN disasters
    /\ Len(ReportsResult(Some(last.id))) >= 2
    /\ Len(ResourcesResult(Some(last.id))) >= 1
    /\ cache # <<>>

\* C16: every create call assigns the current value of its type's counter,
\* an id no record of the type has, and moves the counter one up; the
\* counters never go down and every stored id is below its counter.  So
\* each id is greater than every id assigned before for the type, also
\* after a deleteDisaster, and calls in any order never assign an id twice.
C16_IdsNeverReused ==
    /\ [](/\ \A id \in DOMAIN users : id < currentUserId
          /\ \A id \in DOMAIN disasters : id < currentDisasterId
          /\ \A id \in DOMAIN reports : id < currentReportId
          /\ \A id \in DOMAIN resources : id < currentResourceId)
    /\ [][/\ currentUserId' >= currentUserId
          /\ currentDisasterId' >= currentDisasterId
          /\ currentReportId' >= currentReportId
          /\ currentResourceId' >= currentResourceId
          /\ last'.op = "createUser" =>
                /\ last'.id = currentUserId /\ currentUserId' = currentUserId + 1
                /\ DOMAIN users' = DOMAIN users \cup {last'.id}
          /\ last'.op = "createDisaster" =>
                /\ last'.id = currentDisasterId /\ currentDisasterId' = currentDisasterId + 1
                /\ DOMAIN disasters' = DOMAIN disasters \cup {last'.id}
          /\ last'.op = "createReport" =>
                /\ last'.id = currentReportId /\ currentReportId' = currentReportId + 1
                /\ DOMAIN reports' = DOMAIN reports \cup {last'.id}
          /\ last'.op = "createResource" =>
                /\ last'.id = currentResourceId /\ currentResourceId' = currentResourceId + 1
                /\ DOMAIN resources' = DOMAIN resources \cup {last'.id}]_vars

\* A disaster was created after the disaster with the largest id had been
\* deleted: it got a new id, not the freed one.
C16_Witness ==
    /\ last.op = "createDisaster"
    /\ last.id = 3
    /\ DOMAIN disasters = {1, 3}

\* The fields a second update leaves as the first one wrote them, and the
\* fields it writes itself (the bookkeeping fields apart).
LastWriteWins(d, first, second) ==
    /\ \A f \in DOMAIN second \ {"auditTrail", "updatedAt"} : d[f] = second[f]
    /\ \A f \in (DOMAIN first \ DOMAIN second) \ {"auditTrail", "updatedAt"} : d[f] = first[f]

\* C17: of two updateDisaster calls on the same existing disaster made with
\* no other call between them, each appends its own audit entry, so the
\* trail is 2 entries longer than before the first, and the fields hold the
\* values of the later write; in MemStorage and in DatabaseStorage.
C17_BothUpdatesAppend ==
    [][\A id \in DisasterIds :
          ( /\ last.op = "updateDisaster" /\ last.id = id /\ last.result # Null
            /\ last'.op = "updateDisaster" /\ last'.id = id /\ last'.result # Null )
          => /\ Len(Trail(disasters', id)) = Len(last.before[1].auditTrail) + 2
             /\ LastWriteWins(disasters'[id], last.updates, last'.updates)
             /\ Len(Trail(dbDisasters', id)) = Len(dbLast.before[1].auditTrail) + 2
             /\ LastWriteWins(dbDisasters'[id], dbLast.updates, dbLast'.updates)]_vars

\* C20: createReport stores and returns the report with verificationStatus
\* "pending", whatever the supplied data says; in MemStorage and in
\* DatabaseStorage.
C20_CreateReportPending ==
    /\ last.op = "createReport" =>
          /\ last.result[1].verificationStatus = "pending"
          /\ reports[last.id].verificationStatus = "pending"
    /\ dbLast.op = "createReport" =>
          /\ dbLast.result[1].verificationStatus = "pending"
          /\ dbReports[dbLast.id].verificationStatus = "pending"

\* C18: when the sweep and a getCacheValue(k) are made back to back on a
\* key whose entry has expired, in either order, the lookup returns absent
\* and no entry for k is left; the call that comes second finds the entry
\* gone and does nothing.
C18_SweepAndLazyEviction ==
    /\ [][\A k \in CacheKeys :
            ( /\ last.op = "clearExpiredCache" /\ k \in last.removedKeys
              /\ last'.op = "getCacheValue" /\ last'.key = k )
            => /\ last'.found = Null
               /\ last'.result = Null
               /\ cache' = cache
               /\ FindCached(k)' = Null]_vars
    /\ [][\A k \in CacheKeys :
            ( /\ last.op = "getCacheValue" /\ last.key = k
              /\ last.found # Null /\ last.found[1].expiresAt < clock
              /\ last'.op = "clearExpiredCache" )
            => /\ last.result = Null
               /\ last.found[1].id \notin DOMAIN cache
               /\ last.found[1].id \notin last'.removed
               /\ FindCached(k)' = Null]_vars

\* The sweep removed the expired entry of a key and the lookup of that key,
\* made next, found nothing.
C18_Witness ==
    /\ prev # Null
    /\ prev[1].op = "clearExpiredCache"
    /\ last.op = "getCacheValue"
    /\ last.key \in prev[1].removedKeys
    /\ last.result = Null
    /\ FindCached(last.key) = Null

WrittenEntry == LET t == last.result[1].auditTrail IN t[Len(t)]

\* C21 as stated: the entry written by updateDisaster has action 'update' and
\* as actor the owner in the partial whenever the partial has one, otherwise
\* the owner the disaster had before; the entry written by createDisaster has
\* action 'create' and the supplied owner as actor.
C21_Original ==
    /\ (last.op = "updateDisaster" /\ last.result # Null) =>
           /\ WrittenEntry.action = "update"
           /\ WrittenEntry.userId = IF "ownerId" \in DOMAIN last.updates
                                    THEN last.updates.ownerId
                                    ELSE last.before[1].ownerId
    /\ last.op = "createDisaster" =>
           /\ last.result[1].auditTrail = <<WrittenEntry>>
           /\ WrittenEntry.action = "create"
           /\ WrittenEntry.userId = last.result[1].ownerId

\* C21 (amended): the entry written by updateDisaster has action 'update' and
\* as actor the owner in the partial when the partial has a non-empty one,
\* otherwise (no owner, or an empty one) the owner the disaster had before;
\* the entry written by createDisaster is the whole trail, has action
\* 'create' and the supplied owner as actor.
C21_AuditActor ==
    /\ (last.op = "updateDisaster" /\ last.result # Null) =>
           /\ WrittenEntry.action = "update"
           /\ WrittenEntry.userId = IF /\ "ownerId" \in DOMAIN last.updates
                                       /\ last.updates.ownerId # ""
                                    THEN last.updates.ownerId
                                    ELSE last.before[1].ownerId
    /\ last.op = "createDisaster" =>
           /\ last.result[1].auditTrail = <<WrittenEntry>>
           /\ WrittenEntry.action = "create"
           /\ WrittenEntry.userId = last.result[1].ownerId

\* An update has handed a disaster to an owner it did not have, and the entry
\* it wrote names the new owner.
C21_Witness ==
    /\ last.op = "updateDisaster"
    /\ last.result # Null
    /\ "ownerId" \in DOMAIN last.updates
    /\ last.updates.ownerId \notin {"", last.before[1].ownerId}
    /\ WrittenEntry.userId = last.updates.ownerId

\* The keys of the records of map m that a list call with argument arg has
\* to return: all of them without an argument, otherwise those whose
\* disasterId is the argument.
Matching(m, arg) ==
    {i \in DOMAIN m : arg = Null \/ m[i].disasterId = arg[1]}

\* r holds exactly the records of m that match arg, newest first.
ExactlyNewestFirst(r, m, arg) ==
    /\ Len(r) = Cardinality(Matching(m, arg))
    /\ \A i \in Matching(m, arg) : \E j \in 1..Len(r) : r[j] = m[i]
    /\ \A j \in 1..Len(r) : \E i \in Matching(m, arg) : r[j] = m[i]
    /\ \A i, j \in 1..Len(r) : i < j => r[i].createdAt >= r[j].createdAt

\* C22: getReports(disasterId?) and getResources(disasterId?) return exactly
\* the stored records whose disasterId equals the argument (all records
\* when no argument is given), by creation timestamp descending, after any
\* sequence of create and update calls.
C22_ListsFilteredNewestFirst ==
    \A arg \in ListArgs :
        /\ ExactlyNewestFirst(ReportsResult(arg), reports, arg)
        /\ ExactlyNewestFirst(ResourcesResult(arg), resources, arg)

\* C24: no call changes the createdAt of a report or of a resource that
\* exists: after any updateReport / updateResource it is still the value
\* createReport / createResource stamped.
C24_CreatedAtFixed ==
    [][/\ \A id \in DOMAIN reports : reports'[id].createdAt = reports[id].createdAt
       /\ \A id \in DOMAIN resources :
              resources'[id].createdAt = resources[id].createdAt]_vars

\* C26: every record of the disasters, reports and resources maps has as id
\* the key it is stored under, so that the lookups by id return a record
\* with that id.
C26_IdIsKey ==
    /\ \A i \in DOMAIN disasters : disasters[i].id = i /\ DisasterResult(i)[1].id = i
    /\ \A i \in DOMAIN reports : reports[i].id = i /\ ReportResult(i)[1].id = i
    /\ \A i \in DOMAIN resources : resources[i].id = i

\* C27: the lazy eviction of DatabaseStorage.getCacheValue(k) removes only
\* the expired row it read: when a setCacheValue(k, v, ttl > 0) landed
\* between the lookup's read and its delete, the row that store wrote, still
\* live, is in the table after both calls have completed.
C27_EvictsOnlyWhatItRead ==
    (/\ dbLast.op = "getCacheValue"
     /\ dbLast.deleted # Null
     /\ dbLast.deleted # dbLast.read
     /\ dbLast.deleted[1].expiresAt >= clock) =>
        DbRow(dbLast.key) = dbLast.deleted

\* C28: whenever a verify-image request that names an existing report is
\* answered successfully, the report's verificationStatus is 'verified' if
\* the answer says authentic and 'disputed' otherwise, whatever requests
\* came before.
C28_VerifyImageSetsStatus ==
    (/\ last.op = "verifyImage"
     /\ last.code = 200
     /\ TruthyNum(last.reportId)
     /\ last.reportId[1] \in DOMAIN reports) =>
        reports[last.reportId[1]].verificationStatus = StatusOf(last.result[1])

VerificationStatuses == {"pending", "verified", "disputed"}

\* C23: every report's verificationStatus is one of pending, verified,
\* disputed; a report is pending when it is created; and the status of a
\* report changes only in a step that is an updateReport call for that
\* report (the one the verify-image handler makes included).
C23_StatusOnlyByUpdate ==
    /\ [](\A i \in DOMAIN reports : reports[i].verificationStatus \in VerificationStatuses)
    /\ [][\A i \in DOMAIN reports' :
             IF i \notin DOMAIN reports
             THEN /\ reports'[i].verificationStatus = "pending"
                  /\ last'.op = "createReport"
             ELSE reports'[i].verificationStatus # reports[i].verificationStatus =>
                     /\ last'.op = "updateReport"
                     /\ last'.id = i
                     /\ "verificationStatus" \in DOMAIN last'.updates]_vars

\* A report created from a payload that carried an image and the status
\* 'verified' is pending, and the handler's updateReport has just turned
\* another report from pending to disputed.
C23_Witness ==
    /\ 3 \in DOMAIN reports
    /\ reports[3].imageUrl # Null
    /\ reports[3].verificationStatus = "pending"
    /\ last.op = "updateReport"
    /\ last.result # Null
    /\ last.id = 1
    /\ reports[1].verificationStatus = "disputed"

\* C25: every cache entry whose expiry has passed is eventually gone (swept,
\* evicted by a lookup or replaced by a newer store), whether its key is
\* read again or not; and as time advances this holds of every entry whose
\* expiry lies within the time modelled.
C25_ExpiredEventuallyRemoved ==
    \A i \in 1..MaxSweepCalls :
        /\ (i \in DOMAIN cache /\ cache[i].expiresAt < clock) ~> (i \notin DOMAIN cache)
        /\ (i \in DOMAIN cache /\ cache[i].expiresAt < MaxClock) ~> (i \notin DOMAIN cache)

\* The sweep has just removed an expired entry under one key while the other
\* key's entry, stored later, is still live and stays.
C25_Witness ==
    /\ last.op = "clearExpiredCache"
    /\ last.removed # {}
    /\ \E i \in DOMAIN cache : cache[i].expiresAt >= clock /\ cache[i].key \notin last.removedKeys

====
